---- MODULE Spec2Model ----
(***************************************************************************)
(* Helpdesk: ticket routes, WebSocket hub and session authentication.      *)
(*                                                                         *)
(* The specifications of this module share its variables; each one moves   *)
(* its own part of the state and leaves the rest as Init set it:           *)
(*   SpecTickets  PATCH status and PATCH assign with POST accept, one step *)
(*                per database round trip, so that concurrent requests     *)
(*                interleave between their awaits                          *)
(*   SpecAccept   POST accept by every user                                *)
(*   SpecChat     POST messages on tickets of any department               *)
(*   SpecView     the read routes GET /tickets and GET /tickets/:id        *)
(*   SpecHub      the WebSocketManager: connections, rooms, broadcasts     *)
(*   SpecAuth     login, logout and the route guards on one session        *)
(***************************************************************************)
EXTENDS Integers, Sequences, FiniteSets, Bags, TLC

\* ---------------------------------------------------------------- bounds
MaxTickets == 1      \* rows of cms_complaint_details
MaxReqs == 2         \* HTTP requests in flight at once
MaxMsgs == 1         \* rows of cms_resolve
MaxNumbered == 2     \* rows of cms_complaint_details where a claim needs two tickets

NULL == "NULL"       \* SQL NULL / JS null / undefined

\* ---------------------------------------------------------------- users
\* The user directory (HRMSUser rows as stored in the session).
Users == {"e1", "e2", "a1", "s1"}

role(u) ==
  CASE u = "e1" -> "employee"
    [] u = "e2" -> "employee"
    [] u = "a1" -> "admin"
    [] u = "s1" -> "super_admin"

\* HRMSUser.department is a string (String(row.department)).
department(u) ==
  CASE u = "e1" -> "1"
    [] u = "e2" -> "2"
    [] u = "a1" -> "2"
    [] u = "s1" -> ""

\* JS Number() on a department string: Number("") is 0.
Number(s) ==
  CASE s = "1" -> 1
    [] s = "2" -> 2
    [] OTHER -> 0

Statuses == {"open", "in_progress", "resolved", "closed"}
TicketIds == 1..MaxTickets

VARIABLES
  tickets,     \* cms_complaint_details: id -> row
  messages,    \* cms_resolve: sequence of rows
  reqs,        \* bag of the handlers suspended at an await: what each still holds
  resp,        \* the HTTP exchange completed by the last step, or NoResponse
  bcast        \* the hub broadcast made by the last step, or NoBroadcast

ticketVars == <<tickets, messages, reqs, resp, bcast>>

VARIABLES
  conns,       \* every WebSocket the server accepted, in order of acceptance
  clients,     \* WebSocketManager.clients: clientId -> ClientConnection
  now,         \* Date.now()
  hubCall,     \* the hub operation run by the last step, or NoCall
  delivered    \* the connections that step sent a frame to

hubVars == <<conns, clients, now, hubCall, delivered>>

VARIABLES
  session,     \* req.session.user of the one session, or NoUser
  env,         \* process.env.AUTH_PLAINTEXT_FALLBACK === 'true'
  authResp,    \* the exchange on the session completed by the last step
  loggedOut    \* history: a logout succeeded and no login succeeded since

authVars == <<session, env, authResp, loggedOut>>

VARIABLES
  userTypes,   \* cms_user_details.cms_user_type_id of each user
  signedIn,    \* the role held in each user's session, or NULL without one
  adminResp    \* the admin exchange completed by the last step

adminVars == <<userTypes, signedIn, adminResp>>

VARIABLES
  conversations,  \* cms_user_conversations: set of rows
  convMessages,   \* cms_user_conversation_messages: sequence of rows
  convReqs,       \* getOrCreateConversation calls suspended before their INSERT
  convResp        \* the team-message exchange completed by the last step

convVars == <<conversations, convMessages, convReqs, convResp>>

VARIABLE
  writes          \* the free-text storage calls made so far, in order

VARIABLES
  socks,                 \* the WebSockets of useWebSocket that wsRef holds or that can
                         \* still run a handler of the hook: creation number -> socket
  created,               \* WebSockets the hook created so far
  wsRef,                 \* wsRef.current: a creation number, or 0 for null
  reconnectTimeoutRef,   \* reconnectTimeoutRef.current: a timer id, or 0 for undefined
  reconnectAttemptsRef,  \* reconnectAttemptsRef.current
  isConnectingRef,       \* isConnectingRef.current
  timers,                \* the setTimeout timers still pending
  timerSeq,              \* setTimeout calls made so far (the last timer id)
  connects,              \* connect() calls made by the component or the effect so far
  disconnects,           \* disconnect() calls made so far
  idle,                  \* history: disconnect() ran and connect() was not called since
  hookEvent              \* what the last step of the hook did, or NoHookEvent

clientVars == <<socks, created, wsRef, reconnectTimeoutRef, reconnectAttemptsRef, isConnectingRef,
                timers, timerSeq, connects, disconnects, idle, hookEvent>>

VARIABLES
  cms_sys_details,  \* the target systems: sequence of rows, cms_sys_id = position
  ticketSystem,     \* cms_complaint_details.cms_sys_id of each ticket POST /tickets stored
  postReqs          \* POST /tickets handlers suspended at an await

sysVars == <<cms_sys_details, ticketSystem, postReqs>>

vars == <<ticketVars, hubVars, authVars, adminVars, convVars, writes, clientVars, sysVars>>

\* What the actions of one part leave unchanged.
exceptTickets == <<hubVars, authVars, adminVars, convVars, writes, clientVars, sysVars>>
exceptHub == <<ticketVars, authVars, adminVars, convVars, writes, clientVars, sysVars>>
exceptAuth == <<ticketVars, hubVars, adminVars, convVars, writes, clientVars, sysVars>>
exceptAdmin == <<ticketVars, hubVars, authVars, convVars, writes, clientVars, sysVars>>
exceptConv == <<ticketVars, hubVars, authVars, adminVars, writes, clientVars, sysVars>>
exceptWrites == <<ticketVars, hubVars, authVars, adminVars, convVars, clientVars, sysVars>>
exceptClient == <<ticketVars, hubVars, authVars, adminVars, convVars, writes, sysVars>>
exceptSys == <<hubVars, authVars, adminVars, convVars, writes, clientVars>>

\* What getTicketById returns when no row matches (null).
NoTicket ==
  [id |-> 0, ticket_number |-> NULL, department_id |-> 0, status |-> NULL,
   created_by |-> NULL, assigned_to |-> NULL]

\* ---------------------------------------------------------------- storage
mapStatusToStandard(status) ==
  IF status = NULL THEN "open"
  ELSE IF status \in {"open", "opened", "new"} THEN "open"
  ELSE IF status \in {"in_progress", "in-progress", "progress", "assigned"} THEN "in_progress"
  ELSE IF status \in {"resolved", "done", "fixed"} THEN "resolved"
  ELSE IF status \in {"closed", "complete", "completed"} THEN "closed"
  ELSE status

getTicketById(id) ==
  IF id \in DOMAIN tickets
  THEN [tickets[id] EXCEPT !.status = mapStatusToStandard(@)]
  ELSE NoTicket

StatusRank(status) ==
  CASE status = "open" -> 1
    [] status = "in_progress" -> 2
    [] status = "resolved" -> 3
    [] OTHER -> 4

updateTicketStatus_ForwardOnly(id, status) ==
  [t \in DOMAIN tickets |->
     IF t = id /\ StatusRank(status) >= StatusRank(tickets[t].status)
     THEN [tickets[t] EXCEPT !.status = status]
     ELSE tickets[t]]

updateTicketStatus(id, status) ==
  [t \in DOMAIN tickets |->
     IF t = id
     THEN [tickets[t] EXCEPT !.status = status]
     ELSE tickets[t]]

assignTicket_Assigned(id, assignedToId) ==
  [t \in DOMAIN tickets |->
     IF t = id
     THEN [tickets[t] EXCEPT !.assigned_to = assignedToId, !.status = "assigned"]
     ELSE tickets[t]]

assignTicket_AllRows(id, assignedToId) ==
  [t \in DOMAIN tickets |->
     [tickets[t] EXCEPT
        !.assigned_to = assignedToId,
        !.status = IF @ \in {"resolved", "closed"} THEN "in_progress" ELSE @]]

assignTicket(id, assignedToId) ==
  [t \in DOMAIN tickets |->
     IF t = id
     THEN [tickets[t] EXCEPT
             !.assigned_to = assignedToId,
             !.status = IF @ \in {"resolved", "closed"} THEN "in_progress" ELSE @]
     ELSE tickets[t]]

\* Date.now() in base 36 plus five random characters: two calls may agree.
TicketNumbers == {"TKT-A", "TKT-B"}

\* AUTO_INCREMENT primary key of the next inserted row.
insertId == Cardinality(DOMAIN tickets) + 1

createTicket(department_id, created_by, ticketNumber) ==
  [t \in DOMAIN tickets \cup {insertId} |->
     IF t = insertId
     THEN [id |-> insertId,
           ticket_number |-> ticketNumber,
           department_id |-> department_id,
           status |-> "open",
           created_by |-> created_by,
           assigned_to |-> NULL]
     ELSE tickets[t]]

createTicketMessage(ticket_id, sender_id, message) ==
  Append(messages,
         [ticket_no |-> tickets[ticket_id].ticket_number,
          sender_id |-> sender_id,
          message |-> message])

\* JS truthiness of a nullable string column.
Truthy(v) == v # NULL /\ v # ""

\* ---------------------------------------------------------------- requests
\* A handler suspended at an await. arg is the parsed body field; status is
\* the status of the row read at the start, which only the assign route
\* reads again after its await.
Request(pc, route, u, id, arg, status) ==
  [pc |-> pc, route |-> route, user |-> u, id |-> id, arg |-> arg, status |-> status]

Suspend(q) == reqs (+) SetToBag({q})
Resume(q, next) == (reqs (-) SetToBag({q})) (+) SetToBag({next})
Finish(q) == reqs (-) SetToBag({q})
Pending == BagToSet(reqs)
CanStart == BagCardinality(reqs) < MaxReqs

\* The exchange a step completes: the request (route, user, id, and whether
\* its body passed the zod schema) and the response (code, and the status
\* field of the JSON body if it has one).
Response(route, u, id, valid, code, status) ==
  [route |-> route, user |-> u, id |-> id, valid |-> valid, code |-> code,
   status |-> status, ids |-> {}]

NoResponse == Response("none", NULL, 0, TRUE, 0, NULL)

Broadcast(type, ticketId, status, assigned_to) ==
  [type |-> type, ticketId |-> ticketId, status |-> status, assigned_to |-> assigned_to]

NoBroadcast == Broadcast("none", 0, NULL, NULL)

\* ---------------------------------------------------------------- POST /tickets
\* body.department_id may be missing (NULL): the route falls back to the
\* requester's department.
CreateTicket(u, bodyDept, ticketNumber) ==
  LET department_id == Number(IF bodyDept # NULL THEN bodyDept ELSE department(u)) IN
  /\ UNCHANGED exceptTickets
  /\ insertId \in TicketIds
  /\ tickets' = createTicket(department_id, u, ticketNumber)
  /\ resp' = Response("create", u, insertId, TRUE, 201, "open")
  /\ bcast' = NoBroadcast
  /\ UNCHANGED <<messages, reqs>>

\* ---------------------------------------------------------------- PATCH /tickets/:id/status
canUpdate_AnyAssignee(requester, ticket) ==
  \/ role(requester) = "admin"
  \/ role(requester) = "super_admin"
  \/ /\ role(requester) = "employee"
     /\ ticket.department_id = Number(department(requester))

canUpdate(requester, ticket) ==
  \/ role(requester) = "admin"
  \/ role(requester) = "super_admin"
  \/ /\ role(requester) = "employee"
     /\ ticket.department_id = Number(department(requester))
     /\ (ticket.assigned_to = requester \/ ~Truthy(ticket.assigned_to))

\* updateStatusSchema.parse, getTicketById and the authorization check.
StatusRead(u, id, status) ==
  /\ UNCHANGED exceptTickets
  /\ bcast' = NoBroadcast
  /\ UNCHANGED <<tickets, messages>>
  /\ LET ticket == getTicketById(id) IN
     IF status \notin Statuses
     THEN /\ resp' = Response("status", u, id, FALSE, 500, NULL)
          /\ UNCHANGED reqs
     ELSE IF ticket = NoTicket
     THEN /\ resp' = Response("status", u, id, TRUE, 404, NULL)
          /\ UNCHANGED reqs
     ELSE IF ~canUpdate(u, ticket)
     THEN /\ resp' = Response("status", u, id, TRUE, 403, NULL)
          /\ UNCHANGED reqs
     ELSE /\ CanStart
          /\ resp' = NoResponse
          /\ reqs' = Suspend(Request("update", "status", u, id, status, NULL))

\* storage.updateTicketStatus: the UPDATE statement.
StatusUpdate(q) ==
  /\ UNCHANGED exceptTickets
  /\ q.pc = "update"
  /\ q.route = "status"
  /\ tickets' = updateTicketStatus(q.id, q.arg)
  /\ reqs' = Resume(q, [q EXCEPT !.pc = "reread"])
  /\ resp' = NoResponse
  /\ bcast' = NoBroadcast
  /\ UNCHANGED messages

\* storage.updateTicketStatus: the getTicketById after the UPDATE, then the
\* broadcast and the JSON response.
StatusRespond(q) ==
  /\ UNCHANGED exceptTickets
  /\ q.pc = "reread"
  /\ q.route = "status"
  /\ LET updatedTicket == getTicketById(q.id) IN
     /\ bcast' = Broadcast("ticket_update", q.id, q.arg, NULL)
     /\ resp' = Response("status", q.user, q.id, TRUE, 200, updatedTicket.status)
  /\ reqs' = Finish(q)
  /\ UNCHANGED <<tickets, messages>>

\* ---------------------------------------------------------------- PATCH /tickets/:id/assign
mayReassign_AdminOnly(requester) == role(requester) = "admin"

\* "Only admins and super admins can reassign tickets"
mayReassign(requester) ==
  ~(role(requester) # "admin" /\ role(requester) # "super_admin")

\* assignTicketSchema.parse (assigned_to missing: NULL), getTicketById, the
\* role check and then the existence check.
AssignRead(u, id, assigned_to) ==
  /\ UNCHANGED exceptTickets
  /\ bcast' = NoBroadcast
  /\ UNCHANGED <<tickets, messages>>
  /\ LET ticket == getTicketById(id) IN
     IF assigned_to = NULL
     THEN /\ resp' = Response("assign", u, id, FALSE, 500, NULL)
          /\ UNCHANGED reqs
     ELSE IF ~mayReassign(u)
     THEN /\ resp' = Response("assign", u, id, TRUE, 403, NULL)
          /\ UNCHANGED reqs
     ELSE IF ticket = NoTicket
     THEN /\ resp' = Response("assign", u, id, TRUE, 404, NULL)
          /\ UNCHANGED reqs
     ELSE /\ CanStart
          /\ resp' = NoResponse
          /\ reqs' = Suspend(Request("update", "assign", u, id, assigned_to, ticket.status))

\* storage.assignTicket: the UPDATE statement.
AssignUpdate(q) ==
  /\ UNCHANGED exceptTickets
  /\ q.pc = "update"
  /\ q.route = "assign"
  /\ tickets' = assignTicket(q.id, q.arg)
  /\ reqs' = Resume(q, [q EXCEPT !.pc = "reread"])
  /\ resp' = NoResponse
  /\ bcast' = NoBroadcast
  /\ UNCHANGED messages

\* storage.assignTicket: the getTicketById after the UPDATE, then the
\* broadcast (status of the row read again) and the JSON response (status of
\* the row read before the UPDATE).
AssignRespond(q) ==
  /\ UNCHANGED exceptTickets
  /\ q.pc = "reread"
  /\ q.route = "assign"
  /\ LET updatedTicket == getTicketById(q.id) IN
     /\ bcast' = Broadcast("ticket_update", q.id, updatedTicket.status, q.arg)
     /\ resp' = Response("assign", q.user, q.id, TRUE, 200, q.status)
  /\ reqs' = Finish(q)
  /\ UNCHANGED <<tickets, messages>>

\* ---------------------------------------------------------------- POST /tickets/:id/accept
AcceptRead_Broadcasting(u, id) ==
  /\ UNCHANGED exceptTickets
  /\ UNCHANGED <<tickets, messages>>
  /\ LET ticket == getTicketById(id) IN
     IF ticket = NoTicket
     THEN /\ resp' = Response("accept", u, id, TRUE, 404, NULL)
          /\ bcast' = NoBroadcast
          /\ UNCHANGED reqs
     ELSE IF Truthy(ticket.assigned_to)
     THEN /\ resp' = Response("accept", u, id, TRUE, 409, NULL)
          /\ bcast' = Broadcast("ticket_update", id, ticket.status, ticket.assigned_to)
          /\ UNCHANGED reqs
     ELSE /\ CanStart
          /\ resp' = NoResponse
          /\ bcast' = NoBroadcast
          /\ reqs' = Suspend(Request("update", "accept", u, id, u, NULL))

AcceptRead(u, id) ==
  /\ UNCHANGED exceptTickets
  /\ bcast' = NoBroadcast
  /\ UNCHANGED <<tickets, messages>>
  /\ LET ticket == getTicketById(id) IN
     IF ticket = NoTicket
     THEN /\ resp' = Response("accept", u, id, TRUE, 404, NULL)
          /\ UNCHANGED reqs
     ELSE IF Truthy(ticket.assigned_to)
     THEN /\ resp' = Response("accept", u, id, TRUE, 409, NULL)
          /\ UNCHANGED reqs
     ELSE /\ CanStart
          /\ resp' = NoResponse
          /\ reqs' = Suspend(Request("update", "accept", u, id, u, NULL))

\* storage.assignTicket: the UPDATE statement.
AcceptUpdate(q) ==
  /\ UNCHANGED exceptTickets
  /\ q.pc = "update"
  /\ q.route = "accept"
  /\ tickets' = assignTicket(q.id, q.arg)
  /\ reqs' = Resume(q, [q EXCEPT !.pc = "reread"])
  /\ resp' = NoResponse
  /\ bcast' = NoBroadcast
  /\ UNCHANGED messages

\* storage.assignTicket: the getTicketById after the UPDATE, then the
\* broadcast and the JSON response.
AcceptRespond(q) ==
  /\ UNCHANGED exceptTickets
  /\ q.pc = "reread"
  /\ q.route = "accept"
  /\ LET updatedTicket == getTicketById(q.id) IN
     /\ bcast' = Broadcast("ticket_update", q.id, updatedTicket.status, q.arg)
     /\ resp' = Response("accept", q.user, q.id, TRUE, 200, updatedTicket.status)
  /\ reqs' = Finish(q)
  /\ UNCHANGED <<tickets, messages>>

\* ---------------------------------------------------------------- POST /tickets/:id/messages
allowed_NoAssignee(user, t) ==
  LET userDep == IF department(user) # "" THEN Number(department(user)) ELSE 0
      ticketDep == t.department_id
      isAdmin == role(user) = "admin" \/ role(user) = "super_admin"
  IN \/ isAdmin
     \/ (userDep # 0 /\ ticketDep # 0 /\ userDep = ticketDep)
     \/ user = t.created_by

allowed(user, t) ==
  \* user.department ? Number(user.department) : undefined, and the same for
  \* the ticket; 0 stands for the falsy values, which the && rejects.
  LET userDep == IF department(user) # "" THEN Number(department(user)) ELSE 0
      ticketDep == t.department_id
      isAdmin == role(user) = "admin" \/ role(user) = "super_admin"
  IN \/ isAdmin
     \/ (userDep # 0 /\ ticketDep # 0 /\ userDep = ticketDep)
     \/ user = t.created_by
     \/ user = t.assigned_to

\* messageSchema.parse (z.string().min(1)), getTicketById and the
\* authorization check.
MessageRead(u, id, message) ==
  /\ UNCHANGED exceptTickets
  /\ bcast' = NoBroadcast
  /\ UNCHANGED <<tickets, messages>>
  /\ LET t == getTicketById(id) IN
     IF message = NULL \/ message = ""
     THEN /\ resp' = Response("message", u, id, FALSE, 500, NULL)
          /\ UNCHANGED reqs
     ELSE IF t = NoTicket
     THEN /\ resp' = Response("message", u, id, TRUE, 404, NULL)
          /\ UNCHANGED reqs
     ELSE IF ~allowed(u, t)
     THEN /\ resp' = Response("message", u, id, TRUE, 403, NULL)
          /\ UNCHANGED reqs
     ELSE /\ CanStart
          /\ Len(messages) + Cardinality({q \in Pending : q.route = "message"}) < MaxMsgs
          /\ resp' = NoResponse
          /\ reqs' = Suspend(Request("update", "message", u, id, message, NULL))

\* storage.createTicketMessage (one transaction), then the broadcast and
\* the 201 response.
MessageCreate(q) ==
  /\ UNCHANGED exceptTickets
  /\ q.pc = "update"
  /\ q.route = "message"
  /\ messages' = createTicketMessage(q.id, q.user, q.arg)
  /\ bcast' = Broadcast("new_message", q.id, NULL, NULL)
  /\ resp' = Response("message", q.user, q.id, TRUE, 201, NULL)
  /\ reqs' = Finish(q)
  /\ UNCHANGED tickets

\* ---------------------------------------------------------------- WebSocket hub
MaxConns == 3        \* WebSockets accepted over the run
MaxClock == 1        \* Date.now() runs over 0..MaxClock

HubUsers == {"e1", "a1"}     \* userId values of the connection URLs
Rooms == {1, 2}              \* ticket ids sent by clients
NoRoom == 0                  \* ClientConnection.ticketId undefined

\* A socket of conns is named by its position. Besides its readyState it
\* records the URL's userId, the clientId its handlers closed over, whether
\* the server attached handlers to it (it did not if it rejected it), and
\* joined: the ticket the connection itself last asked for (the URL's
\* ticketId, then its own join_ticket and leave_ticket frames).
Sockets == 1..Len(conns)

ClientId(userId, time) == <<userId, time>>

ClientConnection(ws, userId, ticketId) ==
  [ws |-> ws, userId |-> userId, ticketId |-> ticketId]

MapSet(map, key, value) ==
  [k \in DOMAIN map \cup {key} |-> IF k = key THEN value ELSE map[k]]

MapDelete(map, key) == [k \in DOMAIN map \ {key} |-> map[k]]

HubCall(op, ticketId, userId) == [op |-> op, ticketId |-> ticketId, userId |-> userId]
NoCall == HubCall("none", NoRoom, NULL)

IsOpen(ws) == conns[ws].readyState = "OPEN"

\* wss.on('connection'): a URL without userId is closed with 1008 and gets
\* no handlers; any other socket is registered under userId-Date.now() and
\* is sent the 'connected' frame.
Connect(userId, ticketId) ==
  LET ws == Len(conns) + 1
      clientId == ClientId(userId, now)
  IN /\ Len(conns) < MaxConns
     /\ IF userId = ""
          THEN /\ conns' = Append(conns, [userId |-> userId, clientId |-> clientId,
                                          readyState |-> "CLOSING", handlers |-> FALSE,
                                          joined |-> NoRoom])
               /\ UNCHANGED clients
               /\ hubCall' = NoCall
               /\ delivered' = {}
          ELSE /\ conns' = Append(conns, [userId |-> userId, clientId |-> clientId,
                                          readyState |-> "OPEN", handlers |-> TRUE,
                                          joined |-> ticketId])
               /\ clients' = MapSet(clients, clientId, ClientConnection(ws, userId, ticketId))
               /\ hubCall' = HubCall("connected", NoRoom, userId)
               /\ delivered' = {ws}
     /\ UNCHANGED <<now, exceptHub>>

\* The clock advances between events.
Tick ==
  /\ now < MaxClock
  /\ now' = now + 1
  /\ hubCall' = NoCall
  /\ delivered' = {}
  /\ UNCHANGED <<conns, clients, exceptHub>>

\* handleMessage: the clients map after the frame.
handleMessage(clientId, type, ticketId) ==
  IF clientId \notin DOMAIN clients THEN clients
  ELSE CASE type = "join_ticket" -> [clients EXCEPT ![clientId].ticketId = ticketId]
         [] type = "leave_ticket" -> [clients EXCEPT ![clientId].ticketId = NoRoom]
         [] OTHER -> clients

\* ws.on('message') of socket ws, for a frame that decrypts and parses.
\* A ping is answered on the socket of the map's entry, if that one is open.
OnMessage(ws, type, ticketId) ==
  LET clientId == conns[ws].clientId IN
  /\ IsOpen(ws) /\ conns[ws].handlers
  /\ clients' = handleMessage(clientId, type, ticketId)
  /\ conns' = [conns EXCEPT ![ws].joined =
                 CASE type = "join_ticket" -> ticketId
                   [] type = "leave_ticket" -> NoRoom
                   [] OTHER -> @]
  /\ IF type = "ping" /\ clientId \in DOMAIN clients /\ IsOpen(clients[clientId].ws)
       THEN hubCall' = HubCall("pong", NoRoom, NULL) /\ delivered' = {clients[clientId].ws}
       ELSE hubCall' = NoCall /\ delivered' = {}
  /\ UNCHANGED <<now, exceptHub>>

\* The socket starts to close (either side); its 'close' event comes later.
BeginClose(ws) ==
  /\ IsOpen(ws)
  /\ conns' = [conns EXCEPT ![ws].readyState = "CLOSING"]
  /\ hubCall' = NoCall
  /\ delivered' = {}
  /\ UNCHANGED <<clients, now, exceptHub>>

\* ws.on('error'): the socket is closing when the event is emitted.
OnError(ws) ==
  /\ IsOpen(ws) /\ conns[ws].handlers
  /\ conns' = [conns EXCEPT ![ws].readyState = "CLOSING"]
  /\ clients' = MapDelete(clients, conns[ws].clientId)
  /\ hubCall' = NoCall
  /\ delivered' = {}
  /\ UNCHANGED <<now, exceptHub>>

\* ws.on('close').
OnClose(ws) ==
  /\ conns[ws].readyState = "CLOSING"
  /\ conns' = [conns EXCEPT ![ws].readyState = "CLOSED"]
  /\ clients' = IF conns[ws].handlers THEN MapDelete(clients, conns[ws].clientId)
                ELSE clients
  /\ hubCall' = NoCall
  /\ delivered' = {}
  /\ UNCHANGED <<now, exceptHub>>

\* The sockets a broadcast for ticketId sends its frame to.
broadcastTicketMessage(ticketId) ==
  LET ticketClients == {k \in DOMAIN clients : clients[k].ticketId = ticketId}
  IN {clients[k].ws : k \in {c \in ticketClients : IsOpen(clients[c].ws)}}

broadcastTicketUpdate(ticketId) ==
  LET ticketClients == {k \in DOMAIN clients : clients[k].ticketId = ticketId}
  IN {clients[k].ws : k \in {c \in ticketClients : IsOpen(clients[c].ws)}}

notifyUser_Subscribed(userId) ==
  LET userClients == {k \in DOMAIN clients :
                        clients[k].userId = userId /\ clients[k].ticketId # NoRoom}
  IN {clients[k].ws : k \in {c \in userClients : IsOpen(clients[c].ws)}}

\* The sockets notifyUser(userId, ..) sends its frame to.
notifyUser(userId) ==
  LET userClients == {k \in DOMAIN clients : clients[k].userId = userId}
  IN {clients[k].ws : k \in {c \in userClients : IsOpen(clients[c].ws)}}

BroadcastTicketMessage(ticketId) ==
  /\ hubCall' = HubCall("broadcastTicketMessage", ticketId, NULL)
  /\ delivered' = broadcastTicketMessage(ticketId)
  /\ UNCHANGED <<conns, clients, now, exceptHub>>

BroadcastTicketUpdate(ticketId) ==
  /\ hubCall' = HubCall("broadcastTicketUpdate", ticketId, NULL)
  /\ delivered' = broadcastTicketUpdate(ticketId)
  /\ UNCHANGED <<conns, clients, now, exceptHub>>

NotifyUser(userId) ==
  /\ hubCall' = HubCall("notifyUser", NoRoom, userId)
  /\ delivered' = notifyUser(userId)
  /\ UNCHANGED <<conns, clients, now, exceptHub>>

FrameTypes == {"join_ticket", "leave_ticket", "ping"}

\* A frame on the wire: whether it is AES ciphertext, and the JSON text in it.
Frame(cipher, json) == [cipher |-> cipher, json |-> json]
encryptMessage(message) == Frame(TRUE, message)

\* CryptoJS.AES.decrypt of text that is no ciphertext yields no UTF-8 text.
decryptMessage(ciphertext) == IF ciphertext.cipher THEN ciphertext.json ELSE ""

\* The data ws.send is given by the hub operation op; the JSON text is
\* named by its type field.
sentData(op) ==
  CASE op = "connected" -> encryptMessage("connected")
    [] op = "pong" -> Frame(FALSE, "pong")
    [] op = "broadcastTicketMessage" -> encryptMessage("new_message")
    [] op = "broadcastTicketUpdate" -> encryptMessage("ticket_update")
    [] op = "notifyUser" -> encryptMessage("notification")

\* useWebSocket onmessage: the frame is handled if it decrypts and parses.
onmessage(data) == decryptMessage(data) # ""

InitHub ==
  /\ conns = <<>>
  /\ clients = [k \in {} |-> NoCall]
  /\ now = 0
  /\ hubCall = NoCall
  /\ delivered = {}

NextHub ==
  \/ \E u \in HubUsers \cup {""}, t \in Rooms \cup {NoRoom} : Connect(u, t)
  \/ Tick
  \/ \E ws \in Sockets, type \in FrameTypes, t \in Rooms : OnMessage(ws, type, t)
  \/ \E ws \in Sockets : BeginClose(ws)
  \/ \E ws \in Sockets : OnError(ws)
  \/ \E ws \in Sockets : OnClose(ws)
  \/ \E t \in Rooms : BroadcastTicketMessage(t)
  \/ \E t \in Rooms : BroadcastTicketUpdate(t)
  \/ \E u \in HubUsers : NotifyUser(u)

\* ---------------------------------------------------------------- authentication
\* A stored password is modelled by the scheme that produced it and the
\* password it came from: bcrypt.compare, the MD5 digest comparison and the
\* plain comparison each accept exactly the values of their own scheme.
Bcrypt(password) == <<"bcrypt", password>>
Md5(password) == <<"md5", password>>
Plain(password) == <<"plain", password>>

\* cms_user_details: cms_user_id -> row (the username is the id as well).
cms_user_details ==
  [id \in {"e1", "a1", "s1", "z1"} |->
     CASE id = "e1" -> [role |-> "3", department |-> "1", password_hash |-> Bcrypt("pw1"), status |-> 1]
       [] id = "a1" -> [role |-> "1", department |-> "2", password_hash |-> Md5("pw1"), status |-> 1]
       [] id = "s1" -> [role |-> "99", department |-> "", password_hash |-> Plain("pw2"), status |-> 1]
       [] id = "z1" -> [role |-> "3", department |-> "1", password_hash |-> Bcrypt("pw1"), status |-> 0]]

\* The development users of the fallback branch.
mockUsers ==
  [id \in {"admin001", "emp001"} |->
     CASE id = "admin001" -> [role |-> "admin", department |-> "IT", password |-> "admin123"]
       [] id = "emp001" -> [role |-> "employee", department |-> "HR", password |-> "emp123"]]

SessionUser(id, r, dep) == [id |-> id, role |-> r, department |-> dep]
NoUser == SessionUser(NULL, NULL, NULL)

mappedRole(type) ==
  IF type = "99" THEN "super_admin" ELSE IF type = "1" THEN "admin" ELSE "employee"

isValidPassword_Always(password, password_hash) == TRUE

\* bcrypt first, then MD5, then plain text if AUTH_PLAINTEXT_FALLBACK is set.
isValidPassword(password, password_hash) ==
  \/ password_hash = Bcrypt(password)
  \/ password_hash = Md5(password)
  \/ (env /\ password_hash = Plain(password))

\* The user POST /api/auth/login finds for the body, or NoUser.
loginUser(employee_id, password, dbUp) ==
  IF dbUp
    THEN IF employee_id \in DOMAIN cms_user_details /\ cms_user_details[employee_id].status = 1
           THEN LET row == cms_user_details[employee_id] IN
                IF isValidPassword(password, row.password_hash)
                  THEN SessionUser(employee_id, mappedRole(row.role), row.department)
                  ELSE NoUser
           ELSE NoUser
    ELSE IF employee_id \in DOMAIN mockUsers /\ mockUsers[employee_id].password = password
           THEN SessionUser(employee_id, mockUsers[employee_id].role,
                            mockUsers[employee_id].department)
           ELSE NoUser

AuthResponse(route, code, employee_id, password, dbUp, guards, roles, handlerRan) ==
  [route |-> route, code |-> code, employee_id |-> employee_id, password |-> password,
   dbUp |-> dbUp, guards |-> guards, roles |-> roles, handlerRan |-> handlerRan]
NoAuthResponse == AuthResponse("none", 0, NULL, NULL, TRUE, {}, {}, FALSE)

\* POST /api/auth/login. dbUp: the directory query succeeded.
Login(employee_id, password, dbUp) ==
  LET user == loginUser(employee_id, password, dbUp)
      code == IF ~Truthy(employee_id) \/ ~Truthy(password) THEN 400
              ELSE IF user = NoUser THEN 401 ELSE 200
  IN /\ session' = IF code = 200 THEN user ELSE session
     /\ loggedOut' = IF code = 200 THEN FALSE ELSE loggedOut
     /\ authResp' = AuthResponse("login", code, employee_id, password, dbUp, {}, {}, FALSE)
     /\ UNCHANGED <<env, exceptAuth>>

\* POST /api/auth/logout. destroyed: the store removed the session; if it
\* reports an error instead the answer is 500.
Logout(destroyed) ==
  /\ session' = IF destroyed THEN NoUser ELSE session
  /\ loggedOut' = IF destroyed THEN TRUE ELSE loggedOut
  /\ authResp' = AuthResponse("logout", IF destroyed THEN 200 ELSE 500,
                              NULL, NULL, TRUE, {}, {}, FALSE)
  /\ UNCHANGED <<env, exceptAuth>>

\* What a guard returns: whether it called next(), the status it answered
\* otherwise, and req.user after it.
Guarded(next, code, user) == [next |-> next, code |-> code, user |-> user]

requireAuth(reqUser) ==
  IF session = NoUser THEN Guarded(FALSE, 401, reqUser)
  ELSE Guarded(TRUE, 0, session)

requireRole_NoBypass(roles, reqUser) ==
  IF reqUser = NoUser THEN Guarded(FALSE, 401, reqUser)
  ELSE IF reqUser.role \notin roles THEN Guarded(FALSE, 403, reqUser)
  ELSE Guarded(TRUE, 0, reqUser)

requireRole(roles, reqUser) ==
  IF reqUser = NoUser THEN Guarded(FALSE, 401, reqUser)
  ELSE IF reqUser.role = "super_admin" THEN Guarded(TRUE, 0, reqUser)
  ELSE IF reqUser.role \notin roles THEN Guarded(FALSE, 403, reqUser)
  ELSE Guarded(TRUE, 0, reqUser)

\* A request to a route registered with the guards in guards (requireAuth
\* before requireRole(roles), as everywhere in the router); the handler
\* answers 200 when it runs.
Api(guards, roles) ==
  LET first == IF "requireAuth" \in guards THEN requireAuth(NoUser)
               ELSE Guarded(TRUE, 0, NoUser)
      last == IF first.next /\ "requireRole" \in guards THEN requireRole(roles, first.user)
              ELSE first
  IN /\ authResp' = AuthResponse("api", IF last.next THEN 200 ELSE last.code,
                                 NULL, NULL, TRUE, guards, roles, last.next)
     /\ UNCHANGED <<session, env, loggedOut, exceptAuth>>

InitAuth ==
  /\ session = NoUser
  /\ env \in BOOLEAN
  /\ authResp = NoAuthResponse
  /\ loggedOut = FALSE

LoginIds == {"e1", "a1", "s1", "z1", "admin001", NULL}
LoginPasswords == {"pw1", "pw2", "admin123", NULL}
GuardLists == {{"requireAuth"}, {"requireAuth", "requireRole"}, {"requireRole"}}
RoleLists == {{"admin"}, {"admin", "employee"}}

NextAuth ==
  \/ \E employee_id \in LoginIds, password \in LoginPasswords, dbUp \in BOOLEAN :
        Login(employee_id, password, dbUp)
  \/ \E destroyed \in BOOLEAN : Logout(destroyed)
  \/ \E guards \in GuardLists, roles \in RoleLists : Api(guards, roles)

\* ---------------------------------------------------------------- read routes
\* storage.getTickets(filters): the ids of the rows it selects.
getTickets(departmentId) ==
  IF departmentId # 0
    THEN {id \in DOMAIN tickets : tickets[id].department_id = departmentId}
    ELSE DOMAIN tickets

\* GET /tickets?department_id=..: the requester's department is the filter
\* unless the requester is a super_admin or has none, and a department_id
\* of the query string replaces it.
GetTickets(u, department_id) ==
  LET depId == IF role(u) # "super_admin" /\ department(u) # ""
                 THEN Number(department(u)) ELSE 0
      departmentId == IF Truthy(department_id) THEN Number(department_id) ELSE depId
  IN /\ resp' = [Response("list", u, 0, TRUE, 200, NULL) EXCEPT !.ids = getTickets(departmentId)]
     /\ bcast' = NoBroadcast
     /\ UNCHANGED <<tickets, messages, reqs, exceptTickets>>

\* GET /tickets/:id: 404 for no row, the ticket for every requester else.
GetTicket(u, id) ==
  LET ticket == getTicketById(id) IN
  /\ resp' = IF ticket = NoTicket THEN Response("view", u, id, TRUE, 404, NULL)
             ELSE Response("view", u, id, TRUE, 200, ticket.status)
  /\ bcast' = NoBroadcast
  /\ UNCHANGED <<tickets, messages, reqs, exceptTickets>>

\* ---------------------------------------------------------------- admin: user roles
roleMap(r) ==
  CASE r = "super_admin" -> "99"
    [] r = "admin" -> "1"
    [] r = "employee" -> "3"
    [] OTHER -> NULL

AdminResponse(requester, target, r, code) ==
  [requester |-> requester, target |-> target, role |-> r, code |-> code]
NoAdminResponse == AdminResponse(NULL, NULL, NULL, 0)

\* A successful POST /api/auth/login of u: the session keeps the role the
\* directory holds at that moment.
LoginAs(u) ==
  /\ signedIn' = [signedIn EXCEPT ![u] = mappedRole(userTypes[u])]
  /\ adminResp' = NoAdminResponse
  /\ UNCHANGED <<userTypes, exceptAdmin>>

\* The status PATCH /admin/users/:id/role answers: requireAuth, then
\* requireRole(['admin']), then the handler.
patchRoleCode(requester, userId, r) ==
  LET sessionRole == signedIn[requester]
      dep == IF userId \in DOMAIN userTypes THEN department(userId) ELSE ""
  IN IF sessionRole = NULL THEN 401
     ELSE IF sessionRole # "super_admin" /\ sessionRole # "admin" THEN 403
     ELSE IF roleMap(r) = NULL THEN 400
     ELSE IF sessionRole # "super_admin"
               /\ (\/ r = "super_admin"
                   \/ dep = ""
                   \/ Number(dep) # Number(department(requester)))
            THEN 403
     ELSE 200

PatchUserRole(requester, userId, r) ==
  LET code == patchRoleCode(requester, userId, r) IN
  /\ userTypes' = IF code = 200 /\ userId \in DOMAIN userTypes
                    THEN [userTypes EXCEPT ![userId] = roleMap(r)]
                    ELSE userTypes
  /\ adminResp' = AdminResponse(requester, userId, r, code)
  /\ UNCHANGED <<signedIn, exceptAdmin>>

InitAdmin ==
  /\ userTypes = [u \in Users |-> roleMap(role(u))]
  /\ signedIn = [u \in Users |-> NULL]
  /\ adminResp = NoAdminResponse

Requesters == {"e2", "a1", "s1"}
TargetIds == {"e2", "a1", "x0"}
BodyRoles == {"super_admin", "admin", "employee", "owner"}

NextAdmin ==
  \/ \E u \in Requesters : LoginAs(u)
  \/ \E u \in Requesters, id \in TargetIds, r \in BodyRoles : PatchUserRole(u, id, r)

BodyMessages == {"hello", ""}

\* ---------------------------------------------------------------- team messages
MaxConvs == 2        \* rows of cms_user_conversations
MaxConvReqs == 2     \* getOrCreateConversation calls in flight at once
MaxConvMsgs == 1     \* rows of cms_user_conversation_messages

\* JS string comparison on the user ids of the model.
Rank(id) ==
  CASE id = "a1" -> 1
    [] id = "e1" -> 2
    [] id = "e2" -> 3
    [] id = "s1" -> 4
    [] OTHER -> 0

orderMembers_AsGiven(currentUserId, otherUserId) == <<currentUserId, otherUserId>>

\* const [a, b] = currentUserId < otherUserId ? [current, other] : [other, current]
orderMembers(currentUserId, otherUserId) ==
  IF Rank(currentUserId) < Rank(otherUserId) THEN <<currentUserId, otherUserId>>
  ELSE <<otherUserId, currentUserId>>

Conversation(id, a, b) == [id |-> id, member_a_id |-> a, member_b_id |-> b]
NoConversation == Conversation(0, NULL, NULL)

\* SELECT * FROM cms_user_conversations WHERE member_a_id = ? AND member_b_id = ?
selectConversation(a, b) ==
  LET rows == {c \in conversations : c.member_a_id = a /\ c.member_b_id = b}
  IN IF rows = {} THEN NoConversation ELSE CHOOSE c \in rows : TRUE

ConvResponse(route, u, other, id, code) ==
  [route |-> route, user |-> u, other |-> other, id |-> id, code |-> code]
NoConvResponse == ConvResponse("none", NULL, NULL, 0, 0)

\* POST /messages/conversations up to the first SELECT of
\* getOrCreateConversation: 400 without userId, 201 with the row found, and
\* otherwise the call goes on to its INSERT.
ConversationOpen(u, otherId) ==
  LET ab == orderMembers(u, otherId)
      conv == selectConversation(ab[1], ab[2])
  IN /\ IF otherId = ""
          THEN /\ convResp' = ConvResponse("open", u, otherId, 0, 400)
               /\ UNCHANGED convReqs
          ELSE IF conv # NoConversation
          THEN /\ convResp' = ConvResponse("open", u, otherId, conv.id, 201)
               /\ UNCHANGED convReqs
          ELSE /\ BagCardinality(convReqs) < MaxConvReqs
               /\ convReqs' = convReqs (+) SetToBag({[user |-> u, other |-> otherId,
                                                       a |-> ab[1], b |-> ab[2]]})
               /\ convResp' = NoConvResponse
     /\ UNCHANGED <<conversations, convMessages, exceptConv>>

\* The INSERT and the SELECT after it: UNIQUE KEY uniq_members rejects a
\* second row for (a, b), the error reaches the route's catch and the
\* answer is 500.
ConversationInsert(q) ==
  /\ convReqs' = convReqs (-) SetToBag({q})
  /\ IF selectConversation(q.a, q.b) # NoConversation
       THEN /\ convResp' = ConvResponse("open", q.user, q.other, 0, 500)
            /\ UNCHANGED conversations
       ELSE LET id == Cardinality(conversations) + 1 IN
            /\ id <= MaxConvs
            /\ conversations' = conversations \cup {Conversation(id, q.a, q.b)}
            /\ convResp' = ConvResponse("open", q.user, q.other, id, 201)
  /\ UNCHANGED <<convMessages, exceptConv>>

\* GET /messages/conversations/:id: the messages of the conversation.
ConversationMessages(u, convId) ==
  /\ convResp' = ConvResponse("read", u, NULL, convId, 200)
  /\ UNCHANGED <<conversations, convMessages, convReqs, exceptConv>>

\* POST /messages/conversations/:id: 400 for a blank message; the INSERT
\* fails on the foreign key, and the answer is 500, if no such conversation
\* exists.
ConversationSend(u, convId, text) ==
  /\ IF text = ""
       THEN /\ convResp' = ConvResponse("send", u, NULL, convId, 400)
            /\ UNCHANGED convMessages
       ELSE IF \A c \in conversations : c.id # convId
       THEN /\ convResp' = ConvResponse("send", u, NULL, convId, 500)
            /\ UNCHANGED convMessages
       ELSE /\ Len(convMessages) < MaxConvMsgs
            /\ convMessages' = Append(convMessages,
                                      [conversation_id |-> convId, sender_id |-> u])
            /\ convResp' = ConvResponse("send", u, NULL, convId, 201)
  /\ UNCHANGED <<conversations, convReqs, exceptConv>>

InitConv ==
  /\ conversations = {}
  /\ convMessages = <<>>
  /\ convReqs = EmptyBag
  /\ convResp = NoConvResponse

ConvUsers == {"a1", "e1", "e2"}
BodyUserIds == {"a1", "e1", ""}
ConvIds == 1..MaxConvs

NextConv ==
  \/ \E u \in ConvUsers, otherId \in BodyUserIds : ConversationOpen(u, otherId)
  \/ \E q \in BagToSet(convReqs) : ConversationInsert(q)
  \/ \E u \in ConvUsers, id \in ConvIds : ConversationMessages(u, id)
  \/ \E u \in ConvUsers, id \in ConvIds, text \in BodyMessages : ConversationSend(u, id, text)

\* ---------------------------------------------------------------- free text
MaxWrites == 2       \* storage calls recorded

Texts == {"hello", "<b>hi</b>", "<script>x</script>", ""}

\* xss(input, {whiteList: {}, stripIgnoreTag, stripIgnoreTagBody: ['script']}):
\* tags are removed, a script element goes with its body.
sanitizeInput(input) ==
  CASE input = "<b>hi</b>" -> "hi"
    [] input = "<script>x</script>" -> ""
    [] OTHER -> input

\* A storage call with the free-text values it writes.
Write(call, values) ==
  /\ Len(writes) < MaxWrites
  /\ writes' = Append(writes, [call |-> call, values |-> values])
  /\ UNCHANGED exceptWrites

\* POST /companies, /departments, /target-systems: 400 without a name.
PostCompany(name) == name # "" /\ Write("createCompany", <<sanitizeInput(name)>>)
PostDepartment(name) == name # "" /\ Write("createDepartment", <<sanitizeInput(name)>>)
PostTargetSystem(name) == name # "" /\ Write("createTargetSystem", <<sanitizeInput(name)>>)

\* POST /tickets: subject and description.
PostTicket(subject, description) ==
  Write("createTicket", <<sanitizeInput(subject), sanitizeInput(description)>>)

\* POST /tickets/:id/messages by an allowed requester: the schema rejects
\* an empty message.
PostTicketMessage(message) ==
  message # "" /\ Write("createTicketMessage", <<sanitizeInput(message)>>)

\* POST /messages/conversations/:id: 400 for a blank message.
PostConversationMessage(text) ==
  text # "" /\ Write("addConversationMessage", <<text>>)

\* POST /meetings: 400 without a title.
PostMeeting(title, description) ==
  title # "" /\ Write("createMeeting", <<title, description>>)

InitWrites == writes = <<>>

NextText ==
  \/ \E name \in Texts : PostCompany(name)
  \/ \E name \in Texts : PostDepartment(name)
  \/ \E name \in Texts : PostTargetSystem(name)
  \/ \E subject \in Texts, description \in Texts : PostTicket(subject, description)
  \/ \E message \in Texts : PostTicketMessage(message)
  \/ \E text \in Texts : PostConversationMessage(text)
  \/ \E title \in Texts, description \in Texts : PostMeeting(title, description)

\* ---------------------------------------------------------------- useWebSocket (client hook)
MAX_RECONNECT_DELAY == 30000
BASE_RECONNECT_DELAY == 1000
MAX_RECONNECT_ATTEMPTS == 10

MaxSocks == 12         \* WebSockets the hook creates over the run
MaxConnects == 2       \* connect() calls by the component or the effect over the run
MaxDisconnects == 1    \* disconnect() calls over the run

\* A WebSocket of the browser: its readyState, whether the hook's handlers
\* are still set on it, and whether its close event has been delivered.
Socket(readyState, handlers, fired) ==
  [readyState |-> readyState, handlers |-> handlers, fired |-> fired]

\* ws.close(): an open or connecting socket starts its closing handshake.
close(sock) ==
  IF sock.readyState \in {"CONNECTING", "OPEN"}
    THEN [sock EXCEPT !.readyState = "CLOSING"]
    ELSE sock

HookEvent(op, sock, attempts, delay, newSocket) ==
  [op |-> op, sock |-> sock, attempts |-> attempts, delay |-> delay, newSocket |-> newSocket]
NoHookEvent == HookEvent("none", 0, 0, 0, FALSE)

\* A socket whose handlers were removed, or whose close event was delivered,
\* runs no code of the hook any more: it is dropped unless wsRef holds it.
Live(all, ref) ==
  [s \in {k \in DOMAIN all : k = ref \/ (all[k].handlers /\ ~all[k].fired)} |-> all[s]]

reconnectDelay_Uncapped(attempts) == BASE_RECONNECT_DELAY * 2^attempts

\* Math.min(BASE_RECONNECT_DELAY * Math.pow(2, attempts), MAX_RECONNECT_DELAY)
reconnectDelay(attempts) ==
  LET d == BASE_RECONNECT_DELAY * 2^attempts
  IN IF d < MAX_RECONNECT_DELAY THEN d ELSE MAX_RECONNECT_DELAY

\* connect() returns without creating a socket: no user id, a connect in
\* progress, or an open socket in wsRef.
connectReturns(employee_id) ==
  \/ employee_id = ""
  \/ isConnectingRef
  \/ (wsRef # 0 /\ socks[wsRef].readyState = "OPEN")

\* connect(): what it leaves in socks, wsRef and isConnectingRef. The socket
\* wsRef held loses its handlers and is closed before the new one is made.
connect(employee_id) ==
  IF connectReturns(employee_id)
    THEN [socks |-> socks, wsRef |-> wsRef, isConnectingRef |-> isConnectingRef]
    ELSE LET previous == IF wsRef # 0
                           THEN [socks EXCEPT ![wsRef] = close([@ EXCEPT !.handlers = FALSE])]
                           ELSE socks
         IN [socks |-> MapSet(previous, created + 1, Socket("CONNECTING", TRUE, FALSE)),
             wsRef |-> created + 1,
             isConnectingRef |-> TRUE]

\* The component (or the effect of a new user id) calls connect().
ConnectCall(employee_id) ==
  LET after == connect(employee_id) IN
  /\ connects < MaxConnects
  /\ connects' = connects + 1
  /\ connectReturns(employee_id) \/ created < MaxSocks
  /\ socks' = Live(after.socks, after.wsRef)
  /\ created' = IF connectReturns(employee_id) THEN created ELSE created + 1
  /\ wsRef' = after.wsRef
  /\ isConnectingRef' = after.isConnectingRef
  /\ idle' = FALSE
  /\ hookEvent' = HookEvent("connect", after.wsRef, reconnectAttemptsRef, 0,
                            ~connectReturns(employee_id))
  /\ UNCHANGED <<reconnectTimeoutRef, reconnectAttemptsRef, timers, timerSeq, disconnects,
                 exceptClient>>

\* A reconnect timer fires: its callback calls the connect() of the render
\* that created the socket, in which the user id was set.
Timeout(t) ==
  LET after == connect("e1") IN
  /\ t \in timers
  /\ connectReturns("e1") \/ created < MaxSocks
  /\ timers' = timers \ {t}
  /\ socks' = Live(after.socks, after.wsRef)
  /\ created' = IF connectReturns("e1") THEN created ELSE created + 1
  /\ wsRef' = after.wsRef
  /\ isConnectingRef' = after.isConnectingRef
  /\ hookEvent' = HookEvent("timeout", after.wsRef, reconnectAttemptsRef, t.delay,
                            ~connectReturns("e1"))
  /\ UNCHANGED <<reconnectTimeoutRef, reconnectAttemptsRef, timerSeq, connects, disconnects,
                 idle, exceptClient>>

\* The open event of socket s; onopen if the hook's handlers are on it.
OnOpen(s) ==
  /\ socks[s].readyState = "CONNECTING"
  /\ socks' = [socks EXCEPT ![s].readyState = "OPEN"]
  /\ IF socks[s].handlers
       THEN /\ reconnectAttemptsRef' = 0
            /\ isConnectingRef' = FALSE
            /\ timers' = {t \in timers : t.id # reconnectTimeoutRef}
            /\ reconnectTimeoutRef' = 0
       ELSE UNCHANGED <<reconnectAttemptsRef, isConnectingRef, timers, reconnectTimeoutRef>>
  /\ hookEvent' = HookEvent("open", s, reconnectAttemptsRef, 0, FALSE)
  /\ UNCHANGED <<created, wsRef, timerSeq, connects, disconnects, idle, exceptClient>>

\* The connection of socket s fails: its readyState is CLOSED when the error
\* event is delivered and its close event follows. onerror closes the socket
\* in wsRef.
OnErrorEvent(s) ==
  LET failed == [socks EXCEPT ![s].readyState = "CLOSED"] IN
  /\ socks[s].readyState \in {"CONNECTING", "OPEN"}
  /\ socks' = IF socks[s].handlers /\ wsRef # 0
                THEN [failed EXCEPT ![wsRef] = close(@)]
                ELSE failed
  /\ UNCHANGED created
  /\ hookEvent' = HookEvent("error", s, reconnectAttemptsRef, 0, FALSE)
  /\ UNCHANGED <<wsRef, reconnectTimeoutRef, reconnectAttemptsRef, isConnectingRef, timers,
                 timerSeq, connects, disconnects, idle, exceptClient>>

\* The close event of socket s (the peer closed it, its closing handshake
\* ended, or its connection failed); onclose if the hook's handlers are on it.
OnCloseEvent(s) ==
  /\ ~socks[s].fired
  /\ socks[s].readyState \in {"OPEN", "CLOSING", "CLOSED"}
  /\ socks' = Live([socks EXCEPT ![s] = Socket("CLOSED", @.handlers, TRUE)], wsRef)
  /\ IF socks[s].handlers
       THEN /\ isConnectingRef' = FALSE
            /\ IF reconnectAttemptsRef < MAX_RECONNECT_ATTEMPTS
                 THEN LET delay == reconnectDelay(reconnectAttemptsRef) IN
                      /\ reconnectAttemptsRef' = reconnectAttemptsRef + 1
                      /\ timerSeq' = timerSeq + 1
                      /\ reconnectTimeoutRef' = timerSeq + 1
                      /\ timers' = timers \cup {[id |-> timerSeq + 1, delay |-> delay]}
                      /\ hookEvent' = HookEvent("close", s, reconnectAttemptsRef, delay, FALSE)
                 ELSE /\ UNCHANGED <<reconnectAttemptsRef, timerSeq, reconnectTimeoutRef, timers>>
                      /\ hookEvent' = HookEvent("close", s, reconnectAttemptsRef, 0, FALSE)
       ELSE /\ UNCHANGED <<isConnectingRef, reconnectAttemptsRef, timerSeq,
                           reconnectTimeoutRef, timers>>
            /\ hookEvent' = HookEvent("closed", s, reconnectAttemptsRef, 0, FALSE)
  /\ UNCHANGED <<created, wsRef, connects, disconnects, idle, exceptClient>>

\* disconnect(): the effect cleanup, or a call by the component.
Disconnect ==
  /\ disconnects < MaxDisconnects
  /\ disconnects' = disconnects + 1
  /\ timers' = {t \in timers : t.id # reconnectTimeoutRef}
  /\ reconnectTimeoutRef' = 0
  /\ reconnectAttemptsRef' = 0
  /\ isConnectingRef' = FALSE
  /\ socks' = Live(IF wsRef # 0 THEN [socks EXCEPT ![wsRef] = close(@)] ELSE socks, 0)
  /\ wsRef' = 0
  /\ idle' = TRUE
  /\ hookEvent' = HookEvent("disconnect", wsRef, reconnectAttemptsRef, 0, FALSE)
  /\ UNCHANGED <<created, timerSeq, connects, exceptClient>>

InitClient ==
  /\ socks = [s \in {} |-> Socket("CLOSED", FALSE, TRUE)]
  /\ created = 0
  /\ wsRef = 0
  /\ reconnectTimeoutRef = 0
  /\ reconnectAttemptsRef = 0
  /\ isConnectingRef = FALSE
  /\ timers = {}
  /\ timerSeq = 0
  /\ connects = 0
  /\ disconnects = 0
  /\ idle = FALSE
  /\ hookEvent = NoHookEvent

NextClient ==
  \/ \E employee_id \in {"e1", ""} : ConnectCall(employee_id)
  \/ \E t \in timers : Timeout(t)
  \/ \E s \in DOMAIN socks : OnOpen(s)
  \/ \E s \in DOMAIN socks : OnErrorEvent(s)
  \/ \E s \in DOMAIN socks : OnCloseEvent(s)
  \/ Disconnect

\* ---------------------------------------------------------------- target systems
MaxSystems == 2      \* rows of cms_sys_details
MaxPosts == 2        \* POST /tickets handlers suspended at once

TargetSystem(id, name, department_id) ==
  [id |-> id, name |-> name, department_id |-> department_id]

\* The order of cms_sys_name among the names used.
NameRank(name) ==
  CASE name = "Billing" -> 1
    [] name = "General" -> 2
    [] OTHER -> 3

getTargetSystemsByDepartment_All(departmentId) ==
  {cms_sys_details[i] : i \in 1..Len(cms_sys_details)}

\* SELECT .. WHERE cms_dep_id = ? : the rows of the department.
getTargetSystemsByDepartment(departmentId) ==
  {cms_sys_details[i] : i \in {k \in 1..Len(cms_sys_details) :
                                 cms_sys_details[k].department_id = departmentId}}

\* ORDER BY cms_sys_name: the rows that may come first (rows of one name
\* come in any order).
first(systems) ==
  {sys \in systems : \A o \in systems : NameRank(sys.name) <= NameRank(o.name)}

createTargetSystem(name, departmentId) ==
  Append(cms_sys_details, TargetSystem(Len(cms_sys_details) + 1, name, departmentId))

\* POST /target-systems: 400 without a name or a department id.
CreateTargetSystem(u, name, department_id) ==
  /\ IF name = "" \/ department_id = 0
       THEN /\ resp' = Response("target-system", u, 0, TRUE, 400, NULL)
            /\ UNCHANGED cms_sys_details
       ELSE /\ Len(cms_sys_details) < MaxSystems
            /\ cms_sys_details' = createTargetSystem(sanitizeInput(name), department_id)
            /\ resp' = Response("target-system", u, Len(cms_sys_details) + 1, TRUE, 201, NULL)
  /\ bcast' = NoBroadcast
  /\ UNCHANGED <<tickets, messages, reqs, ticketSystem, postReqs, exceptSys>>

\* A POST /tickets handler suspended at an await: body is the target system
\* id of its request body (0: missing), target the requestedTargetSystemId
\* it holds now.
PostRequest(pc, u, department_id, body, target) ==
  [pc |-> pc, user |-> u, department_id |-> department_id, body |-> body, target |-> target]

\* POST /tickets up to the choice of the target system: the department of
\* the body or of the requester, the department's systems, and the
\* requested id (0: missing) kept only if it is one of them.
TicketSystems(u, bodyDept, requestedTargetSystemId) ==
  LET department_id == Number(IF bodyDept # NULL THEN bodyDept ELSE department(u))
      systems == getTargetSystemsByDepartment(department_id)
      allowedIds == {sys.id : sys \in systems}
  IN /\ BagCardinality(postReqs) < MaxPosts
     /\ IF requestedTargetSystemId # 0 /\ requestedTargetSystemId \in allowedIds
          THEN postReqs' = postReqs (+) SetToBag({PostRequest("insert", u, department_id,
                                                              requestedTargetSystemId,
                                                              requestedTargetSystemId)})
          ELSE IF systems = {}
          THEN postReqs' = postReqs (+) SetToBag({PostRequest("general", u, department_id,
                                                              requestedTargetSystemId, 0)})
          ELSE \E sys \in first(systems) :
                 postReqs' = postReqs (+) SetToBag({PostRequest("insert", u, department_id,
                                                                requestedTargetSystemId,
                                                                sys.id)})
     /\ resp' = NoResponse
     /\ bcast' = NoBroadcast
     /\ UNCHANGED <<tickets, messages, reqs, cms_sys_details, ticketSystem, exceptSys>>

\* storage.createTargetSystem('General', department_id) of the handler.
TicketGeneral(q) ==
  /\ q.pc = "general"
  /\ Len(cms_sys_details) < MaxSystems
  /\ cms_sys_details' = createTargetSystem("General", q.department_id)
  /\ postReqs' = (postReqs (-) SetToBag({q}))
                   (+) SetToBag({[q EXCEPT !.pc = "insert",
                                           !.target = Len(cms_sys_details) + 1]})
  /\ resp' = NoResponse
  /\ bcast' = NoBroadcast
  /\ UNCHANGED <<tickets, messages, reqs, ticketSystem, exceptSys>>

\* createTicketSchema.parse (valid: the other fields of the body pass it)
\* and storage.createTicket.
TicketInsert(q, valid) ==
  /\ q.pc = "insert"
  /\ postReqs' = postReqs (-) SetToBag({q})
  /\ IF valid
       THEN /\ insertId <= MaxNumbered
            /\ tickets' = createTicket(q.department_id, q.user, "TKT-A")
            /\ ticketSystem' = MapSet(ticketSystem, insertId, q.target)
            /\ resp' = Response("create", q.user, insertId, TRUE, 201, "open")
       ELSE /\ resp' = Response("create", q.user, 0, FALSE, 500, NULL)
            /\ UNCHANGED <<tickets, ticketSystem>>
  /\ bcast' = NoBroadcast
  /\ UNCHANGED <<messages, reqs, cms_sys_details, exceptSys>>

InitSys ==
  /\ cms_sys_details = <<>>
  /\ ticketSystem = [t \in {} |-> 0]
  /\ postReqs = EmptyBag

NextSystems ==
  \/ \E name \in {"Billing", ""}, d \in 0..2 : CreateTargetSystem("a1", name, d)
  \/ \E u \in {"e1", "s1"}, d \in {NULL, "2"}, id \in 0..MaxSystems : TicketSystems(u, d, id)
  \/ \E q \in BagToSet(postReqs) : TicketGeneral(q)
  \/ \E q \in BagToSet(postReqs), valid \in BOOLEAN : TicketInsert(q, valid)

\* ---------------------------------------------------------------- SpecTickets
\* The status, assign and accept routes on tickets created through
\* POST /tickets, with up to MaxReqs handlers suspended at once.
Actors == {"e1", "a1", "s1"}
Acceptors == {"e1", "a1"}
BodyStatuses == Statuses \cup {"reopened"}
BodyAssignees == {"e1", "a1", NULL}

InitTickets ==
  /\ tickets = <<>>
  /\ messages = <<>>
  /\ reqs = EmptyBag
  /\ resp = NoResponse
  /\ bcast = NoBroadcast

NextTickets ==
  \/ \E d \in {"1", "2"} : CreateTicket("e1", d, "TKT-A")
  \/ \E u \in Actors, id \in TicketIds, s \in BodyStatuses : StatusRead(u, id, s)
  \/ \E q \in Pending : StatusUpdate(q)
  \/ \E q \in Pending : StatusRespond(q)
  \/ \E u \in Actors, id \in TicketIds, a \in BodyAssignees : AssignRead(u, id, a)
  \/ \E q \in Pending : AssignUpdate(q)
  \/ \E q \in Pending : AssignRespond(q)
  \/ \E u \in Acceptors, id \in TicketIds : AcceptRead(u, id)
  \/ \E q \in Pending : AcceptUpdate(q)
  \/ \E q \in Pending : AcceptRespond(q)

\* Outside SpecAuth the plain-text fallback is off.
Init ==
  /\ InitTickets /\ InitHub /\ InitAuth /\ InitAdmin /\ InitConv /\ InitWrites /\ InitClient /\ InitSys
  /\ env = FALSE

SpecTickets == Init /\ [][NextTickets]_vars

\* A handler that passed its checks in this step and is now suspended before
\* its UPDATE.
Admitted(q) == q.pc = "update" /\ CopiesIn(q, reqs') > CopiesIn(q, reqs)

\* A handler whose UPDATE statement ran in this step.
Updated(q) ==
  /\ q.pc = "update"
  /\ CopiesIn(q, reqs') < CopiesIn(q, reqs)
  /\ CopiesIn([q EXCEPT !.pc = "reread"], reqs') > CopiesIn([q EXCEPT !.pc = "reread"], reqs)

\* The last step answered a request of this route before any UPDATE: the
\* rows are still as the handler read them.
Rejected(route) == resp.route = route /\ resp.code \in {403, 404, 409, 500}

\* ---------------------------------------------------------------- C1
\* The rule of the claim: the ticket is of the employee's department and is
\* unassigned or assigned to the employee.
C1_Rule(u, t) ==
  /\ t.department_id = Number(department(u))
  /\ (t.assigned_to = NULL \/ t.assigned_to = u)

\* C1 as stated: an employee's status request on an existing ticket that
\* does not meet the rule is answered 403.
C1_Original ==
  (/\ Rejected("status")
   /\ role(resp.user) = "employee"
   /\ resp.id \in DOMAIN tickets
   /\ ~C1_Rule(resp.user, tickets[resp.id]))
  => resp.code = 403

C1_Responses ==
  (Rejected("status") /\ role(resp.user) = "employee" /\ resp.id \in DOMAIN tickets)
  => /\ resp.code = 500 <=> ~resp.valid
     /\ resp.code = 403 <=> (resp.valid /\ ~C1_Rule(resp.user, tickets[resp.id]))
     /\ resp.code # 404

C1_Step ==
  /\ \A q \in BagToSet(reqs') :
       (Admitted(q) /\ q.route = "status" /\ role(q.user) = "employee")
         => (q.arg \in Statuses /\ C1_Rule(q.user, tickets[q.id]))
  /\ (resp'.route = "status" /\ resp'.code \in {403, 500}) => tickets' = tickets
  /\ \A id \in DOMAIN tickets :
       tickets'[id] # tickets[id] => \E q \in Pending : Updated(q) /\ q.id = id

\* C1 (amended): an employee's status request with a valid status on an
\* existing ticket passes the check exactly when the ticket is of the
\* employee's department and unassigned or assigned to the employee, and is
\* answered 403 otherwise; a request with an invalid status is answered 500;
\* a step that answers 403 or 500 changes no ticket, and a ticket changes
\* only in the UPDATE of a request that passed its check.
C1_EmployeeStatusRule == []C1_Responses /\ [][C1_Step]_ticketVars

C1_Witness ==
  /\ resp.route = "status" /\ resp.code = 403 /\ role(resp.user) = "employee"
  /\ resp.id \in DOMAIN tickets
  /\ tickets[resp.id].department_id = Number(department(resp.user))
  /\ tickets[resp.id].assigned_to = "a1"

\* ---------------------------------------------------------------- C2
\* C2 as stated: an assign request by an employee is always answered 403.
C2_Original ==
  (resp.route = "assign" /\ role(resp.user) = "employee") => resp.code = 403

C2_Responses ==
  /\ (resp.route = "assign" /\ role(resp.user) = "employee")
       => /\ resp.code = (IF resp.valid THEN 403 ELSE 500)
          /\ bcast = NoBroadcast
  /\ (/\ resp.route = "assign"
      /\ role(resp.user) \in {"admin", "super_admin"}
      /\ resp.valid
      /\ resp.id \in DOMAIN tickets)
       => /\ resp.code = 200
          /\ bcast.type = "ticket_update"
          /\ bcast.ticketId = resp.id

C2_Step ==
  /\ \A q \in BagToSet(reqs') :
       (Admitted(q) /\ q.route = "assign")
          => (role(q.user) \in {"admin", "super_admin"} /\ q.arg # NULL)
  /\ \A q \in Pending :
       (Updated(q) /\ q.route = "assign") => tickets'[q.id].assigned_to = q.arg
  /\ (resp'.route = "assign" /\ resp'.code \in {403, 500})
       => (tickets' = tickets /\ bcast' = NoBroadcast)

\* C2 (amended): an assign request by an employee that names an assignee is
\* answered 403, and one that names none is answered 500; either way no
\* ticket changes and nothing is broadcast. Only requests of admins and
\* super_admins pass the check, and the UPDATE of such a request on an
\* existing ticket sets the assignee to the user it names; it is answered
\* 200 and broadcast.
C2_OnlyAdminsReassign == []C2_Responses /\ [][C2_Step]_ticketVars

C2_Witness ==
  /\ resp.route = "assign" /\ resp.code = 200 /\ role(resp.user) = "super_admin"
  /\ bcast.assigned_to = "e1"
  /\ tickets[resp.id].assigned_to = "e1"

\* ---------------------------------------------------------------- C3
\* The accept route alone: accept requests of all users on the same tickets.
NextAccept ==
  \/ \E d \in {"1", "2"} : CreateTicket("e1", d, "TKT-A")
  \/ \E u \in Users, id \in TicketIds : AcceptRead(u, id)
  \/ \E q \in Pending : AcceptUpdate(q)
  \/ \E q \in Pending : AcceptRespond(q)

SpecAccept == Init /\ [][NextAccept]_vars

\* C3: of the accept requests for one ticket at most one succeeds, and the
\* ticket is then assigned to its requester: whenever an accept request is
\* answered 200, the ticket's assignee is the user who made it.
C3_OneAcceptWins ==
  (resp.route = "accept" /\ resp.code = 200)
    => tickets[resp.id].assigned_to = resp.user

\* ---------------------------------------------------------------- SpecChat
\* The ticket chat: tickets of any department created by an employee or the
\* super_admin, accepted by employees, and messages posted by every user.
BodyDepartments == {"1", "2", NULL}

NextChat ==
  \/ \E u \in {"e1", "s1"}, d \in BodyDepartments : CreateTicket(u, d, "TKT-A")
  \/ \E u \in {"e1", "e2"}, id \in TicketIds : AcceptRead(u, id)
  \/ \E q \in Pending : AcceptUpdate(q)
  \/ \E q \in Pending : AcceptRespond(q)
  \/ \E u \in Users, id \in TicketIds, m \in BodyMessages : MessageRead(u, id, m)
  \/ \E q \in Pending : MessageCreate(q)

SpecChat == Init /\ [][NextChat]_vars

\* ---------------------------------------------------------------- C4
\* The rule of the claim: admin or super_admin, or same department, or
\* creator, or assignee.
C4_Rule(u, t) ==
  \/ role(u) \in {"admin", "super_admin"}
  \/ Number(department(u)) = t.department_id
  \/ u = t.created_by
  \/ u = t.assigned_to

C4_Responses ==
  /\ (Rejected("message") /\ resp.id \in DOMAIN tickets)
       => /\ resp.code = 500 <=> ~resp.valid
          /\ resp.code = 403 <=> (resp.valid /\ ~C4_Rule(resp.user, tickets[resp.id]))
          /\ resp.code # 404
          /\ bcast = NoBroadcast
  /\ (resp.route = "message" /\ resp.code = 201)
       => /\ bcast = Broadcast("new_message", resp.id, NULL, NULL)
          /\ Len(messages) > 0
          /\ messages[Len(messages)].sender_id = resp.user
          /\ messages[Len(messages)].ticket_no = tickets[resp.id].ticket_number

C4_Step ==
  /\ \A q \in BagToSet(reqs') :
       (Admitted(q) /\ q.route = "message")
          => (q.arg # "" /\ q.arg # NULL /\ C4_Rule(q.user, tickets[q.id]))
  /\ messages' # messages
       => \E q \in Pending :
             /\ q.route = "message"
             /\ CopiesIn(q, reqs') < CopiesIn(q, reqs)
             /\ messages' = Append(messages, [ticket_no |-> tickets[q.id].ticket_number,
                                              sender_id |-> q.user, message |-> q.arg])
             /\ resp' = Response("message", q.user, q.id, TRUE, 201, NULL)
  /\ (resp'.route = "message" /\ resp'.code \in {403, 500})
       => (messages' = messages /\ bcast' = NoBroadcast)

SpecHub == Init /\ [][NextHub]_vars

\* A socket is registered when an entry of the clients map holds it.
Registered(ws) == \E k \in DOMAIN clients : clients[k].ws = ws

\* ---------------------------------------------------------------- C5
\* C5: a ticket broadcast for t sends its frame to exactly the registered
\* open sockets whose own last subscription is t.
C5_BroadcastToSubscribers ==
  hubCall.op \in {"broadcastTicketUpdate", "broadcastTicketMessage"}
    => delivered = {ws \in Sockets : /\ Registered(ws)
                                     /\ IsOpen(ws)
                                     /\ conns[ws].joined = hubCall.ticketId}

\* ---------------------------------------------------------------- C6
\* C6: notifyUser(u, ..) sends its frame to exactly the registered open
\* sockets that connected as u, whatever they are subscribed to.
C6_NotifyUser ==
  hubCall.op = "notifyUser"
    => delivered = {ws \in Sockets : /\ Registered(ws)
                                     /\ IsOpen(ws)
                                     /\ conns[ws].userId = hubCall.userId}

C6_Witness ==
  /\ hubCall.op = "notifyUser"
  /\ \E a, b \in delivered : conns[a].joined = NoRoom /\ conns[b].joined # NoRoom
  /\ \E c \in Sockets \ delivered :
        Registered(c) /\ IsOpen(c) /\ conns[c].userId # hubCall.userId

\* ---------------------------------------------------------------- SpecView
NextView ==
  \/ \E u \in Users, d \in BodyDepartments : CreateTicket(u, d, "TKT-A")
  \/ \E u \in Users, d \in {"0", "1", "2", NULL} : GetTickets(u, d)
  \/ \E u \in Users, id \in TicketIds : GetTicket(u, id)

SpecView == Init /\ [][NextView]_vars

\* ---------------------------------------------------------------- C7
\* C7: every ticket GET /tickets returns to an employee is of the
\* employee's own department.
C7_EmployeeListsOwnDepartment ==
  (resp.route = "list" /\ role(resp.user) = "employee")
    => \A id \in resp.ids : tickets[id].department_id = Number(department(resp.user))

\* ---------------------------------------------------------------- C8
\* C8: GET /tickets/:id of an existing ticket answers 403 to a requester
\* who is neither admin nor super_admin nor of the ticket's department.
C8_ViewOwnDepartment ==
  (/\ resp.route = "view" /\ resp.id \in DOMAIN tickets
   /\ role(resp.user) \notin {"admin", "super_admin"}
   /\ tickets[resp.id].department_id # Number(department(resp.user)))
    => resp.code = 403

\* ---------------------------------------------------------------- SpecAuth
InitSession ==
  InitTickets /\ InitHub /\ InitAuth /\ InitAdmin /\ InitConv /\ InitWrites /\ InitClient /\ InitSys

SpecAuth == InitSession /\ [][NextAuth]_vars

\* ---------------------------------------------------------------- C9
\* req.user when requireRole runs: set by a requireAuth before it.
C9_ReqUser == IF "requireAuth" \in authResp.guards THEN session ELSE NoUser

\* C9: behind requireAuth the handler runs iff the session holds a user,
\* and the answer is 401 otherwise; behind requireRole(roles) it runs iff
\* req.user is a super_admin or has a role of roles, the answer being 401
\* without a user and 403 for another role.
C9_RouteGuards ==
  authResp.route = "api" =>
    /\ authResp.handlerRan <=> authResp.code = 200
    /\ authResp.guards = {"requireAuth"} =>
         /\ authResp.handlerRan <=> session # NoUser
         /\ session = NoUser => authResp.code = 401
    /\ "requireRole" \in authResp.guards =>
         /\ authResp.handlerRan <=>
              /\ C9_ReqUser # NoUser
              /\ C9_ReqUser.role = "super_admin" \/ C9_ReqUser.role \in authResp.roles
         /\ C9_ReqUser = NoUser => authResp.code = 401
         /\ (C9_ReqUser # NoUser /\ ~authResp.handlerRan) => authResp.code = 403

C9_Witness ==
  /\ authResp.route = "api" /\ authResp.handlerRan
  /\ authResp.guards = {"requireAuth", "requireRole"}
  /\ session.role = "super_admin" /\ "super_admin" \notin authResp.roles

\* ---------------------------------------------------------------- C10
\* The password check of the claim: the body names an active directory user
\* and carries the password stored for that user (in plain text only if the
\* fallback is on), or, with the directory down, a development user's.
C10_PasswordOk(employee_id, password, dbUp) ==
  IF dbUp
    THEN /\ employee_id \in {"e1", "a1", "s1"}
         /\ \/ employee_id \in {"e1", "a1"} /\ password = "pw1"
            \/ employee_id = "s1" /\ password = "pw2" /\ env
    ELSE employee_id = "admin001" /\ password = "admin123"

C10_Responses ==
  /\ (authResp.route = "login"
        /\ ~C10_PasswordOk(authResp.employee_id, authResp.password, authResp.dbUp))
       => authResp.code \in {400, 401}
  /\ loggedOut => session = NoUser
  /\ (authResp.route = "api" /\ "requireAuth" \in authResp.guards /\ loggedOut)
       => (authResp.code = 401 /\ ~authResp.handlerRan)

C10_Step ==
  /\ (session' # session /\ session' # NoUser)
       => /\ authResp'.route = "login" /\ authResp'.code = 200
          /\ C10_PasswordOk(authResp'.employee_id, authResp'.password, authResp'.dbUp)
          /\ session'.id = authResp'.employee_id
  /\ (authResp'.route = "login" /\ authResp'.code # 200) => session' = session
  /\ (authResp'.route = "logout" /\ authResp'.code = 200) => session' = NoUser

\* C10: the session comes to hold a user only by a login whose password
\* check succeeded; a login without it answers 400 or 401 and leaves the
\* session as it was; after a logout answered 200 the session holds no user
\* and every request behind requireAuth is answered 401 until a login
\* succeeds.
C10_SessionLifecycle == []C10_Responses /\ [][C10_Step]_vars

C10_Witness ==
  /\ loggedOut /\ authResp.route = "api" /\ authResp.code = 401
  /\ "requireAuth" \in authResp.guards

\* ---------------------------------------------------------------- SpecAdmin
SpecAdmin == Init /\ [][NextAdmin]_vars

\* ---------------------------------------------------------------- C11
\* C11: a step that gives a user the super_admin role it did not have
\* answers a request of a user who is a super_admin in the directory.
C11_NoSuperAdminGrant ==
  [][\A t \in Users :
       (userTypes'[t] = "99" /\ userTypes[t] # "99")
         => mappedRole(userTypes[adminResp'.requester]) = "super_admin"]_vars

\* ---------------------------------------------------------------- SpecConv
SpecConv == Init /\ [][NextConv]_vars

Members(c) == {c.member_a_id, c.member_b_id}

\* ---------------------------------------------------------------- C12
C12_Unique ==
  /\ \A c, d \in conversations : Members(c) = Members(d) => c = d
  /\ \A c \in conversations : Rank(c.member_a_id) <= Rank(c.member_b_id)
  /\ (convResp.route = "open" /\ convResp.code = 201)
       => \E c \in conversations :
             c.id = convResp.id /\ Members(c) = {convResp.user, convResp.other}

\* C12: at most one conversation exists for each unordered pair of users,
\* it is stored with member_a_id <= member_b_id and is never removed, and
\* every call that returns, for (u, v) or for (v, u), returns that row.
C12_OneConversationPerPair ==
  []C12_Unique /\ [][conversations \subseteq conversations']_vars

C12_Witness ==
  /\ convResp.route = "open" /\ convResp.code = 201
  /\ \E c \in conversations :
        /\ c.id = convResp.id
        /\ c.member_a_id = convResp.other /\ c.member_b_id = convResp.user
        /\ c.member_a_id # c.member_b_id
  /\ Cardinality(conversations) = 2

\* ---------------------------------------------------------------- C13
\* C13: the messages of a conversation are returned to, and a message is
\* added by, its two members only.
C13_MembersOnly ==
  (convResp.route \in {"read", "send"} /\ convResp.code \in {200, 201})
    => \A c \in conversations : c.id = convResp.id => convResp.user \in Members(c)

\* ---------------------------------------------------------------- C14
\* C14: every stored conversation is between two different users.
C14_TwoUsers == \A c \in conversations : c.member_a_id # c.member_b_id

\* ---------------------------------------------------------------- SpecText
SpecText == Init /\ [][NextText]_vars

\* ---------------------------------------------------------------- C15
\* C15: every free-text value handed to a storage call is an output of
\* sanitizeInput.
C15_Sanitized ==
  \A i \in 1..Len(writes) : \A j \in 1..Len(writes[i].values) :
     writes[i].values[j] \in {sanitizeInput(t) : t \in Texts}

\* ---------------------------------------------------------------- C16
\* C16: every frame the hub sends is accepted by the client's onmessage.
C16_FramesEncrypted ==
  (hubCall.op # "none" /\ delivered # {}) => onmessage(sentData(hubCall.op))

\* ---------------------------------------------------------------- C17
\* An authorized actor of the status route: an admin or super_admin, or an
\* employee of the ticket's department on a ticket that is unassigned or
\* their own.
C17_Authorized(u, t) ==
  role(u) \in {"admin", "super_admin"} \/ C1_Rule(u, t)

C17_NeverRefused ==
  (Rejected("status") /\ resp.valid /\ resp.id \in DOMAIN tickets)
    => ~C17_Authorized(resp.user, tickets[resp.id])

C17_Step ==
  /\ \A q \in Pending :
       (Updated(q) /\ q.route = "status") => tickets'[q.id].status = q.arg
  /\ \A q \in Pending :
       (q.route = "status" /\ q.pc = "reread" /\ CopiesIn(q, reqs') < CopiesIn(q, reqs))
          => resp'.code = 200

\* C17: a status request with one of the four statuses by an authorized
\* actor is never refused, whatever the ticket's status is; its UPDATE
\* leaves the ticket with the requested status, whatever the status was;
\* and it is answered 200.
C17_AnyTransition == []C17_NeverRefused /\ [][C17_Step]_vars

\* The ticket is open again after it had been closed.
C17_Witness ==
  /\ resp.route = "status" /\ resp.code = 200 /\ resp.status = "open"
  /\ tickets[resp.id].status = "open"
  /\ \E q \in Pending :
        q.route = "status" /\ q.pc = "reread" /\ q.arg = "closed" /\ q.id = resp.id

\* ---------------------------------------------------------------- C18
\* C18: an employee whose accept request succeeds is of the ticket's
\* department.
C18_AcceptOwnDepartment ==
  (resp.route = "accept" /\ resp.code = 200 /\ role(resp.user) = "employee")
    => tickets[resp.id].department_id = Number(department(resp.user))

\* ---------------------------------------------------------------- C20
C20_Stored == \A id \in DOMAIN tickets : tickets[id].status \in Statuses

C20_Step ==
  /\ \A id \in DOMAIN tickets' \ DOMAIN tickets :
       tickets'[id].status = "open" /\ tickets'[id].assigned_to = NULL
  /\ (resp'.route = "status" /\ ~resp'.valid)
       => (resp'.code = 500 /\ tickets' = tickets)
  /\ \A q \in BagToSet(reqs') : (Admitted(q) /\ q.route = "status") => q.arg \in Statuses

\* C20: every stored status is one of open, in_progress, resolved, closed;
\* a ticket is created open and unassigned; a status request with another
\* value is answered 500, changes no ticket and never reaches its UPDATE.
C20_StatusEnum == []C20_Stored /\ [][C20_Step]_vars

C20_Witness ==
  /\ resp.route = "status" /\ ~resp.valid /\ resp.code = 500
  /\ resp.id \in DOMAIN tickets
  /\ tickets[resp.id].status = "in_progress"
  /\ tickets[resp.id].assigned_to # NULL


\* ---------------------------------------------------------------- ticket messages by number

\* storage.getTicketMessages(ticketId): the rows of cms_resolve (by their
\* position in messages) whose ticket number is that of the ticket; none
\* for a ticket that does not exist.
getTicketMessages(ticketId) ==
  IF ticketId \notin DOMAIN tickets THEN {}
  ELSE LET ticketNo == tickets[ticketId].ticket_number
       IN {i \in 1..Len(messages) : messages[i].ticket_no = ticketNo}

\* GET /tickets/:id/messages: the rows of the ticket's number, for every
\* signed-in requester.
GetTicketMessages(u, id) ==
  /\ resp' = [Response("messages", u, id, TRUE, 200, NULL) EXCEPT !.ids = getTicketMessages(id)]
  /\ bcast' = NoBroadcast
  /\ UNCHANGED <<tickets, messages, reqs, exceptTickets>>

\* POST /tickets in the requester's department; generateTicketNumber
\* returned ticketNumber.
CreateNumbered(u, ticketNumber) ==
  /\ UNCHANGED exceptTickets
  /\ insertId <= MaxNumbered
  /\ tickets' = createTicket(Number(department(u)), u, ticketNumber)
  /\ resp' = Response("create", u, insertId, TRUE, 201, "open")
  /\ bcast' = NoBroadcast
  /\ UNCHANGED <<messages, reqs>>

NextMessages ==
  \/ \E u \in {"e1", "e2"}, no \in TicketNumbers : CreateNumbered(u, no)
  \/ \E u \in Users, id \in 1..MaxNumbered, m \in BodyMessages : MessageRead(u, id, m)
  \/ \E q \in Pending : MessageCreate(q)
  \/ \E u \in {"e1", "a1"}, id \in 1..MaxNumbered : GetTicketMessages(u, id)

SpecMessages == Init /\ [][NextMessages]_vars

\* ---------------------------------------------------------------- C19
\* C19: each chat message belongs to exactly one ticket. The message a
\* request has just stored for ticket t is among the rows
\* getTicketMessages(t') returns exactly when t' = t, and no stored message
\* is returned for two different tickets.
C19_OneTicketPerMessage ==
  /\ (resp.route = "message" /\ resp.code = 201)
       => \A t \in DOMAIN tickets : (Len(messages) \in getTicketMessages(t)) <=> (t = resp.id)
  /\ \A i \in 1..Len(messages) : \A t1, t2 \in DOMAIN tickets :
       (i \in getTicketMessages(t1) /\ i \in getTicketMessages(t2)) => t1 = t2


\* ---------------------------------------------------------------- assignment, two tickets
\* Requests served one after the other on up to MaxNumbered tickets.
NextAssign ==
  \/ \E no \in TicketNumbers : CreateNumbered("e1", no)
  \/ reqs = EmptyBag /\ \E id \in 1..MaxNumbered, s \in {"resolved", "closed"} : StatusRead("a1", id, s)
  \/ \E q \in Pending : StatusUpdate(q)
  \/ \E q \in Pending : StatusRespond(q)
  \/ reqs = EmptyBag /\ \E id \in 1..MaxNumbered, a \in {"e1", "a1"} : AssignRead("a1", id, a)
  \/ \E q \in Pending : AssignUpdate(q)
  \/ \E q \in Pending : AssignRespond(q)
  \/ reqs = EmptyBag /\ \E u \in {"e1", "e2"}, id \in 1..MaxNumbered : AcceptRead(u, id)
  \/ \E q \in Pending : AcceptUpdate(q)
  \/ \E q \in Pending : AcceptRespond(q)

SpecAssign == Init /\ [][NextAssign]_vars

\* ---------------------------------------------------------------- C21
\* C21: assignTicket(id, u) sets the ticket's assignee to u; a resolved or
\* closed ticket becomes in_progress, an open or in_progress ticket keeps
\* its status; no other field of the ticket and no other ticket changes.
C21_Step ==
  \A q \in Pending :
    (Updated(q) /\ q.route \in {"assign", "accept"}) =>
       /\ DOMAIN tickets' = DOMAIN tickets
       /\ \A t \in DOMAIN tickets \ {q.id} : tickets'[t] = tickets[t]
       /\ tickets'[q.id].assigned_to = q.arg
       /\ tickets[q.id].status \in {"resolved", "closed"} => tickets'[q.id].status = "in_progress"
       /\ tickets[q.id].status \in {"open", "in_progress"}
            => tickets'[q.id].status = tickets[q.id].status
       /\ tickets'[q.id].id = tickets[q.id].id
       /\ tickets'[q.id].ticket_number = tickets[q.id].ticket_number
       /\ tickets'[q.id].department_id = tickets[q.id].department_id
       /\ tickets'[q.id].created_by = tickets[q.id].created_by
       /\ messages' = messages

C21_AssignFrame == [][C21_Step]_vars

\* An assign request read ticket 1 as closed and its UPDATE has run: the
\* ticket is in_progress with the new assignee, and ticket 2 is still
\* resolved and assigned to someone else.
C21_Witness ==
  /\ DOMAIN tickets = {1, 2}
  /\ \E q \in Pending :
       /\ q.route = "assign" /\ q.pc = "reread" /\ q.id = 1 /\ q.status = "closed"
       /\ tickets[1].status = "in_progress" /\ tickets[1].assigned_to = q.arg
       /\ tickets[2].status = "resolved"
       /\ Truthy(tickets[2].assigned_to) /\ tickets[2].assigned_to # q.arg


\* ---------------------------------------------------------------- client hook
SpecClient == Init /\ [][NextClient]_vars


\* The hook mounted once: the effect's connect(), then only the socket
\* events, the hook's own reconnect timers and disconnect().
NextReconnect ==
  \/ connects = 0 /\ ConnectCall("e1")
  \/ \E t \in timers : Timeout(t)
  \/ \E s \in DOMAIN socks : OnOpen(s)
  \/ \E s \in DOMAIN socks : OnErrorEvent(s)
  \/ \E s \in DOMAIN socks : OnCloseEvent(s)
  \/ Disconnect

SpecReconnect == Init /\ [][NextReconnect]_vars

\* ---------------------------------------------------------------- C22
C22_Delay(n) ==
  IF 1000 * 2^n < 30000 THEN 1000 * 2^n ELSE 30000

C22_Range == reconnectAttemptsRef \in 0..10

\* After a close event that found the counter at 10 nothing is left that
\* would make the hook connect again.
C22_GivesUp ==
  (hookEvent.op = "close" /\ hookEvent.attempts = 10) => timers = {}

C22_Step ==
  /\ (hookEvent'.op = "close" /\ reconnectAttemptsRef < 10)
       => /\ reconnectAttemptsRef' = reconnectAttemptsRef + 1
          /\ \E t \in timers' :
               /\ timers' = timers \cup {t}
               /\ t \notin timers
               /\ t.delay = C22_Delay(reconnectAttemptsRef)
  /\ (hookEvent'.op = "close" /\ reconnectAttemptsRef = 10)
       => (timers' = timers /\ reconnectAttemptsRef' = 10)
  /\ hookEvent'.op = "open" => reconnectAttemptsRef' = 0
  /\ hookEvent'.op \in {"close", "open", "error"} => ~hookEvent'.newSocket

C24_QuietAfterDisconnect ==
  idle => /\ timers = {}
          /\ ~hookEvent.newSocket
          /\ hookEvent.op = "close" => hookEvent.delay = 0


\* ---------------------------------------------------------------- C23
SpecSystems == Init /\ [][NextSystems]_vars

\* Every stored ticket references a row of cms_sys_details of its own
\* department.
C23_Belongs ==
  \A t \in DOMAIN ticketSystem :
    /\ t \in DOMAIN tickets
    /\ ticketSystem[t] \in 1..Len(cms_sys_details)
    /\ cms_sys_details[ticketSystem[t]].department_id = tickets[t].department_id

\* The handler keeps only an id that belongs to the department at hand.
C23_Held ==
  \A q \in BagToSet(postReqs) :
    q.pc = "insert" =>
      /\ q.target \in 1..Len(cms_sys_details)
      /\ cms_sys_details[q.target].department_id = q.department_id

C23_Step ==
  \* a 'General' system is created by a ticket request only for a
  \* department that had no system when the request read them
  /\ \A q \in BagToSet(postReqs') :
       (q.pc = "general" /\ CopiesIn(q, postReqs') > CopiesIn(q, postReqs))
          => getTargetSystemsByDepartment(q.department_id) = {}
  \* a requested id of the department is kept; any other is replaced by a
  \* system of the department that no other precedes by name
  /\ \A q \in BagToSet(postReqs') :
       (q.pc = "insert" /\ CopiesIn(q, postReqs') > CopiesIn(q, postReqs)
          /\ cms_sys_details' = cms_sys_details)
          => IF /\ q.body \in 1..Len(cms_sys_details)
                /\ cms_sys_details[q.body].department_id = q.department_id
               THEN q.target = q.body
               ELSE \A i \in 1..Len(cms_sys_details) :
                      cms_sys_details[i].department_id = q.department_id
                        => NameRank(cms_sys_details[q.target].name)
                             <= NameRank(cms_sys_details[i].name)
  /\ \A q \in BagToSet(postReqs) :
       (q.pc = "general" /\ CopiesIn(q, postReqs') < CopiesIn(q, postReqs))
          => /\ Len(cms_sys_details') = Len(cms_sys_details) + 1
             /\ cms_sys_details'[Len(cms_sys_details')] =
                  TargetSystem(Len(cms_sys_details) + 1, "General", q.department_id)

\* C23: every ticket created through POST /tickets references a target
\* system of the ticket's department; a requested id that is missing or of
\* another department is replaced by a first system of the department, or
\* by a new 'General' system of the department when it has none.
C23_TargetSystemOfDepartment == [](C23_Belongs /\ C23_Held) /\ [][C23_Step]_vars

\* A ticket of department 2 was requested with the id of a system of
\* department 1 and is stored with a 'General' system of department 2.
C23_Witness ==
  /\ resp.route = "create" /\ resp.code = 201
  /\ \E q \in BagToSet(postReqs) : q.pc = "insert" /\ q.body = 1 /\ q.target = 2
  /\ tickets[resp.id].department_id = 2
  /\ Len(cms_sys_details) = 2
  /\ cms_sys_details[1].department_id = 1
  /\ cms_sys_details[2] = TargetSystem(2, "General", 2)
  /\ ticketSystem[resp.id] = 2


\* ---------------------------------------------------------------- C25
\* C25: every connection that connected with a userId and is still open has
\* its own entry in the clients map, and no entry is shared or left behind:
\* the entries are exactly those of such connections that have not closed
\* or errored.
C25_RegistryMatchesConnections ==
  /\ \A ws \in Sockets : (conns[ws].handlers /\ IsOpen(ws)) => Registered(ws)
  /\ \A k \in DOMAIN clients :
       /\ clients[k].ws \in Sockets
       /\ conns[clients[k].ws].clientId = k
       /\ conns[clients[k].ws].readyState # "CLOSED"


\* ---------------------------------------------------------------- C26
\* C26: when the UPDATE of an employee's status request runs, the ticket is
\* unassigned or assigned to that employee.
C26_Step ==
  \A q \in Pending :
    (Updated(q) /\ q.route = "status" /\ role(q.user) = "employee")
      => (~Truthy(tickets[q.id].assigned_to) \/ tickets[q.id].assigned_to = q.user)

C26_RuleAtWrite == [][C26_Step]_vars


\* ---------------------------------------------------------------- SpecBroadcast
\* The four routes that broadcast, on one ticket, with up to MaxReqs
\* handlers suspended at once.
NextBroadcast ==
  \/ \E d \in {"1", "2"} : CreateTicket("e1", d, "TKT-A")
  \/ \E u \in {"e1", "a1"}, id \in TicketIds, s \in {"closed", "reopened"} : StatusRead(u, id, s)
  \/ \E q \in Pending : StatusUpdate(q)
  \/ \E q \in Pending : StatusRespond(q)
  \/ \E u \in {"e1", "a1"}, id \in TicketIds, a \in {"e1", NULL} : AssignRead(u, id, a)
  \/ \E q \in Pending : AssignUpdate(q)
  \/ \E q \in Pending : AssignRespond(q)
  \/ \E u \in {"e1", "a1"}, id \in TicketIds \cup {MaxTickets + 1} : AcceptRead(u, id)
  \/ \E q \in Pending : AcceptUpdate(q)
  \/ \E q \in Pending : AcceptRespond(q)
  \/ \E u \in {"e1", "e2"}, id \in TicketIds, m \in BodyMessages : MessageRead(u, id, m)
  \/ \E q \in Pending : MessageCreate(q)

SpecBroadcast == Init /\ [][NextBroadcast]_vars

\* ---------------------------------------------------------------- C27
\* A broadcast comes with the successful answer of a request on its ticket;
\* a request answered 403, 404, 409 or 500 broadcasts nothing.
C27_Answers ==
  /\ bcast.type = "ticket_update"
       => /\ resp.route \in {"status", "assign", "accept"}
          /\ resp.code = 200
          /\ resp.id = bcast.ticketId
  /\ bcast.type = "new_message"
       => /\ resp.route = "message"
          /\ resp.code = 201
          /\ resp.id = bcast.ticketId
  /\ resp.code \in {403, 404, 409, 500} => bcast = NoBroadcast

C27_Step ==
  \* ticket_update: the request passed its check and its UPDATE ran in an
  \* earlier step
  /\ bcast'.type = "ticket_update"
       => \E q \in Pending :
            /\ q.pc = "reread"
            /\ q.route \in {"status", "assign", "accept"}
            /\ q.id = bcast'.ticketId
            /\ CopiesIn(q, reqs') < CopiesIn(q, reqs)
  \* a handler is past its UPDATE only through the UPDATE of an admitted one
  /\ \A q \in BagToSet(reqs') :
       (q.pc = "reread" /\ CopiesIn(q, reqs') > CopiesIn(q, reqs))
          => Updated([q EXCEPT !.pc = "update"])
  /\ \A q \in BagToSet(reqs') : Admitted(q) => (resp' = NoResponse /\ q.id \in DOMAIN tickets)
  \* new_message: the message is committed by this request
  /\ bcast'.type = "new_message"
       => \E q \in Pending :
            /\ q.route = "message"
            /\ q.id = bcast'.ticketId
            /\ CopiesIn(q, reqs') < CopiesIn(q, reqs)
            /\ Len(messages') = Len(messages) + 1
            /\ messages'[Len(messages')].message = q.arg
            /\ messages'[Len(messages')].ticket_no = tickets[q.id].ticket_number

\* C27: ticket_update for t is broadcast only by a status, assign or accept
\* request on t that passed its checks and whose UPDATE has run, new_message
\* for t only with the message committed, and a request answered 403, 404,
\* 409 or 500 broadcasts nothing.
C27_BroadcastAfterChange == []C27_Answers /\ [][C27_Step]_vars

\* An accept is answered 200 and broadcasts the assignee it stored, while a
\* status request on the ticket has written but not yet broadcast.
C27_Witness ==
  /\ resp.route = "accept" /\ resp.code = 200
  /\ bcast.type = "ticket_update" /\ bcast.ticketId = resp.id
  /\ bcast.assigned_to = resp.user
  /\ tickets[resp.id].assigned_to = resp.user
  /\ \E q \in Pending : q.route = "status" /\ q.pc = "reread" /\ q.id = resp.id


\* ---------------------------------------------------------------- C28
\* C28: the status in the JSON response of a successful status, assign or
\* accept request is the ticket's stored status after the operation and the
\* status of the request's ticket_update broadcast.
C28_ResponseStatus ==
  (resp.route \in {"status", "assign", "accept"} /\ resp.code = 200)
    => /\ resp.status = tickets[resp.id].status
       /\ resp.status = bcast.status

====
